---- MODULE Spec2Model ----
(***************************************************************************)
(* Model of the LISA pytest fragment:                                      *)
(*   - testsuites/test_smoke.py : test_smoke(urn, node)                    *)
(*   - lisa.py                  : lisa_schema, validate(mark)              *)
(* test_smoke is modelled statement by statement (one action per call on   *)
(* the node and per final assert / check); validate is modelled as a pure  *)
(* operator over markers, applied by the action Validate.                  *)
(***************************************************************************)
EXTENDS Integers, Sequences, FiniteSets, TLC

VARIABLES
    pc,        \* statement of test_smoke about to run
    ping1,     \* local 'ping1' (Result or unbound)
    ssh1,      \* local 'ssh1'
    reboot,    \* local 'reboot'
    ping2,     \* local 'ping2'
    ssh2,      \* local 'ssh2'
    warnings,  \* sequence of logging.warning messages
    calls,     \* sequence of calls made on the node, with how each ended
    raised,    \* exception that left test_smoke ("none" while there is none)
    mark,      \* the pytest Mark handed to validate: [args, kwargs]
    mark0,     \* the Mark as it was before the first validate
    verror,    \* how the last validate ended: "none", "ok" or the error
    vcalls     \* number of validate calls made on mark

smokeVars == <<pc, ping1, ssh1, reboot, ping2, ssh2, warnings, calls, raised>>
markVars == <<mark, mark0, verror, vcalls>>
vars == <<pc, ping1, ssh1, reboot, ping2, ssh2, warnings, calls, raised,
          mark, mark0, verror, vcalls>>

-----------------------------------------------------------------------------
(* invoke.runners.Result and Python locals *)

\* A local variable that was never assigned.
Unbound == [bound |-> FALSE, command |-> "", exited |-> 0]

\* invoke's Result of a command that ran and exited with 'exited'.
Result(command, exited) == [bound |-> TRUE, command |-> command, exited |-> exited]

\* Result.ok: the command exited with 0.
Ok(r) == r.exited = 0

\* One call on the node: its name, the exception it raised ("none" if it
\* returned) and whether what it returned reports success.
Call(name, exc, ok) == [call |-> name, raised |-> exc, ok |-> ok]

-----------------------------------------------------------------------------
(* What the node can answer *)

\* ssh_errors = (TimeoutError, SSHException, socket.error)
ssh_errors == {"TimeoutError", "SSHException", "socket.error"}

\* Exit codes of node.ping(warn=True): reachable or not.
PingExits == {0, 1}

\* Exit codes of node.run("uptime", warn=True).
UptimeExits == {0, 1}

\* Exit codes of node.sudo("reboot", warn=True); -1 is the expected one.
RebootExits == {-1, 0, 1}

\* Exceptions node.run / node.sudo can raise: the SSH errors and any other one.
ShellFaults == ssh_errors \cup {"Exception"}

\* Exceptions node.platform_restart() can raise.
PlatformFaults == {"PlatformFault"}

\* Exceptions node.get_boot_diagnostics() can raise.
DiagnosticsFaults == {"DiagnosticsFault"}

\* Exit codes of the command behind node.get_boot_diagnostics() when it
\* returns; test_smoke drops the returned value.
DiagnosticsExits == {0, 1}

-----------------------------------------------------------------------------
(* Warning messages of test_smoke *)

WarnSshBefore == "SSH before reboot failed"
WarnSshReboot == "SSH failed, using platform to reboot"
WarnRebootFailed == "While SSH worked, 'reboot' command failed"
WarnSshAfter == "SSH after reboot failed"
WarnSsh1NotOk == "SSH command 'uptime' before reboot failed"
WarnSsh2NotOk == "SSH command 'uptime' after reboot failed"

-----------------------------------------------------------------------------
(* test_smoke *)

\* A handler that takes timeouts only.
CaughtTimeoutOnly(e) == e = "TimeoutError"

\* 'except ssh_errors as e': the handler takes the exception.
Caught(e) == e \in ssh_errors

\* An exception leaves test_smoke: the test ends with it.
Propagate(e) == /\ raised' = e
                /\ pc' = "done"

\* A ping whose result is checked on the spot instead of at the end.
PingBeforeAsserting ==
    /\ pc = "ping1"
    /\ \E x \in PingExits :
          /\ ping1' = Result("ping", x)
          /\ calls' = Append(calls, Call("ping", "none", x = 0))
          /\ IF x = 0 THEN pc' = "ssh1" /\ UNCHANGED raised
                      ELSE Propagate("AssertionError")
    /\ UNCHANGED <<ssh1, reboot, ping2, ssh2, warnings>>
    /\ UNCHANGED markVars

\* line 30: ping1 = node.ping(warn=True)
PingBefore ==
    /\ pc = "ping1"
    /\ \E x \in PingExits :
          /\ ping1' = Result("ping", x)
          /\ calls' = Append(calls, Call("ping", "none", x = 0))
    /\ pc' = "ssh1"
    /\ UNCHANGED <<ssh1, reboot, ping2, ssh2, warnings, raised>>
    /\ UNCHANGED markVars

\* lines 34-38: try: ssh1 = node.run("uptime", warn=True)
\*              except ssh_errors as e: logging.warning(...)
SshBefore ==
    /\ pc = "ssh1"
    /\ \/ \E x \in UptimeExits :
             /\ ssh1' = Result("uptime", x)
             /\ calls' = Append(calls, Call("run", "none", x = 0))
             /\ pc' = "reboot"
             /\ UNCHANGED <<warnings, raised>>
       \/ \E e \in ShellFaults :
             /\ calls' = Append(calls, Call("run", e, FALSE))
             /\ IF Caught(e)
                  THEN /\ warnings' = Append(warnings, WarnSshBefore)
                       /\ pc' = "reboot"
                       /\ UNCHANGED raised
                  ELSE /\ Propagate(e)
                       /\ UNCHANGED warnings
             /\ UNCHANGED ssh1
    /\ UNCHANGED <<ping1, reboot, ping2, ssh2>>
    /\ UNCHANGED markVars

\* line 48: the reboot command ran but did not end as a reboot does.
RebootCommandFailed(r) == r.exited # -1

\* A handler that logs the SSH failure and goes on without the platform.
RebootHandlerWithoutPlatform == "ping2"

\* Where the 'except ssh_errors' handler of the reboot goes (line 46).
RebootHandler == "platform_restart"

\* An else branch that falls back to the platform when the command failed.
AfterRebootEscalating(r) == IF r.exited # -1 THEN "platform_restart" ELSE "ping2"

\* lines 47-51: the else branch only logs; the test goes on with the ping.
AfterReboot(r) == "ping2"

\* lines 40-49: try: reboot = node.sudo("reboot", warn=True)
\*              except ssh_errors as e: warning; node.platform_restart()
\*              else: if reboot.exited != -1: warning
Reboot ==
    /\ pc = "reboot"
    /\ \/ \E x \in RebootExits :
             /\ reboot' = Result("reboot", x)
             /\ calls' = Append(calls, Call("sudo", "none", x = 0))
             /\ warnings' = IF RebootCommandFailed(reboot')
                              THEN Append(warnings, WarnRebootFailed)
                              ELSE warnings
             /\ pc' = AfterReboot(reboot')
             /\ UNCHANGED raised
       \/ \E e \in ShellFaults :
             /\ calls' = Append(calls, Call("sudo", e, FALSE))
             /\ IF Caught(e)
                  THEN /\ warnings' = Append(warnings, WarnSshReboot)
                       /\ pc' = RebootHandler
                       /\ UNCHANGED raised
                  ELSE /\ Propagate(e)
                       /\ UNCHANGED warnings
             /\ UNCHANGED reboot
    /\ UNCHANGED <<ping1, ssh1, ping2, ssh2>>
    /\ UNCHANGED markVars

\* A handler that turns the platform's exception into a failed step.
PlatformRaisedSwallowed(e) == /\ pc' = "ping2"
                              /\ UNCHANGED raised

\* line 46: nothing catches what node.platform_restart() raises.
PlatformRaised(e) == Propagate(e)

\* line 46, inside the handler: node.platform_restart()
PlatformRestart ==
    /\ pc = "platform_restart"
    /\ \/ /\ calls' = Append(calls, Call("platform_restart", "none", TRUE))
          /\ pc' = "ping2"
          /\ UNCHANGED raised
       \/ \E e \in PlatformFaults :
             /\ calls' = Append(calls, Call("platform_restart", e, FALSE))
             /\ PlatformRaised(e)
    /\ UNCHANGED <<ping1, ssh1, reboot, ping2, ssh2, warnings>>
    /\ UNCHANGED markVars

\* line 52: ping2 = node.ping(warn=True)
PingAfter ==
    /\ pc = "ping2"
    /\ \E x \in PingExits :
          /\ ping2' = Result("ping", x)
          /\ calls' = Append(calls, Call("ping", "none", x = 0))
    /\ pc' = "ssh2"
    /\ UNCHANGED <<ping1, ssh1, reboot, ssh2, warnings, raised>>
    /\ UNCHANGED markVars

\* lines 54-58: try: ssh2 = node.run("uptime", warn=True)
\*              except ssh_errors as e: logging.warning(...)
SshAfter ==
    /\ pc = "ssh2"
    /\ \/ \E x \in UptimeExits :
             /\ ssh2' = Result("uptime", x)
             /\ calls' = Append(calls, Call("run", "none", x = 0))
             /\ pc' = "diagnostics"
             /\ UNCHANGED <<warnings, raised>>
       \/ \E e \in ShellFaults :
             /\ calls' = Append(calls, Call("run", e, FALSE))
             /\ IF Caught(e)
                  THEN /\ warnings' = Append(warnings, WarnSshAfter)
                       /\ pc' = "diagnostics"
                       /\ UNCHANGED raised
                  ELSE /\ Propagate(e)
                       /\ UNCHANGED warnings
             /\ UNCHANGED ssh2
    /\ UNCHANGED <<ping1, ssh1, reboot, ping2>>
    /\ UNCHANGED markVars

\* A best-effort fetch: the exception is dropped and the checks follow.
DiagnosticsRaisedSwallowed(e) == /\ pc' = "assert_ping1"
                                 /\ UNCHANGED raised

\* line 61: nothing catches what node.get_boot_diagnostics() raises.
DiagnosticsRaised(e) == Propagate(e)

\* line 61: node.get_boot_diagnostics(); the returned value is dropped.
Diagnostics ==
    /\ pc = "diagnostics"
    /\ \/ \E x \in DiagnosticsExits :
             /\ calls' = Append(calls, Call("get_boot_diagnostics", "none", x = 0))
             /\ pc' = "assert_ping1"
             /\ UNCHANGED raised
       \/ \E e \in DiagnosticsFaults :
             /\ calls' = Append(calls, Call("get_boot_diagnostics", e, FALSE))
             /\ DiagnosticsRaised(e)
    /\ UNCHANGED <<ping1, ssh1, reboot, ping2, ssh2, warnings>>
    /\ UNCHANGED markVars

\* line 63: assert ping1.ok
AssertPing1 ==
    /\ pc = "assert_ping1"
    /\ IF Ok(ping1)
         THEN pc' = "check_ssh1" /\ UNCHANGED raised
         ELSE Propagate("AssertionError")
    /\ UNCHANGED <<ping1, ssh1, reboot, ping2, ssh2, warnings, calls>>
    /\ UNCHANGED markVars

\* lines 64-65: if not ssh1.ok: logging.warning(...)
\* Reading ssh1 when line 36 raised finds the local unbound.
CheckSsh1 ==
    /\ pc = "check_ssh1"
    /\ IF ~ssh1.bound
         THEN Propagate("UnboundLocalError") /\ UNCHANGED warnings
         ELSE /\ warnings' = IF ~Ok(ssh1) THEN Append(warnings, WarnSsh1NotOk)
                                          ELSE warnings
              /\ pc' = "assert_ping2"
              /\ UNCHANGED raised
    /\ UNCHANGED <<ping1, ssh1, reboot, ping2, ssh2, calls>>
    /\ UNCHANGED markVars

\* line 66: assert ping2.ok
AssertPing2 ==
    /\ pc = "assert_ping2"
    /\ IF Ok(ping2)
         THEN pc' = "check_ssh2" /\ UNCHANGED raised
         ELSE Propagate("AssertionError")
    /\ UNCHANGED <<ping1, ssh1, reboot, ping2, ssh2, warnings, calls>>
    /\ UNCHANGED markVars

\* lines 67-68: if not ssh2.ok: logging.warning(...)
CheckSsh2 ==
    /\ pc = "check_ssh2"
    /\ IF ~ssh2.bound
         THEN Propagate("UnboundLocalError") /\ UNCHANGED warnings
         ELSE /\ warnings' = IF ~Ok(ssh2) THEN Append(warnings, WarnSsh2NotOk)
                                          ELSE warnings
              /\ pc' = "done"
              /\ UNCHANGED raised
    /\ UNCHANGED <<ping1, ssh1, reboot, ping2, ssh2, calls>>
    /\ UNCHANGED markVars

\* The marker test_smoke itself carries (line 12); validate is not run here.
NoMark == [args |-> <<>>, kwargs |-> <<>>]

\* Entry of test_smoke: no local is bound, nothing was logged or called.
Init ==
    /\ pc = "ping1"
    /\ ping1 = Unbound
    /\ ssh1 = Unbound
    /\ reboot = Unbound
    /\ ping2 = Unbound
    /\ ssh2 = Unbound
    /\ warnings = <<>>
    /\ calls = <<>>
    /\ raised = "none"
    /\ mark = NoMark
    /\ mark0 = NoMark
    /\ verror = "none"
    /\ vcalls = 0

Next ==
    \/ PingBefore
    \/ SshBefore
    \/ Reboot
    \/ PlatformRestart
    \/ PingAfter
    \/ SshAfter
    \/ Diagnostics
    \/ AssertPing1
    \/ CheckSsh1
    \/ AssertPing2
    \/ CheckSsh2

Spec == Init /\ [][Next]_vars

-----------------------------------------------------------------------------
(* Vocabulary of the properties of test_smoke *)

\* test_smoke returned normally: pytest reports the test as passed.
Passed == pc = "done" /\ raised = "none"

\* test_smoke ended with an exception: pytest reports failure.
Failed == pc = "done" /\ raised # "none"

\* A ping that was made and answered.
PingOk(r) == r.bound /\ Ok(r)

\* Positions in 'calls' of the calls named 'name'.
CallsOf(name) == {i \in DOMAIN calls : calls[i].call = name}

\* Position of the reboot command in 'calls' (0 before it is sent).
SudoAt == IF CallsOf("sudo") = {} THEN 0 ELSE CHOOSE i \in CallsOf("sudo") : TRUE

\* The uptime probes made before / after the reboot command.
ProbesBefore == {i \in CallsOf("run") : SudoAt = 0 \/ i < SudoAt}
ProbesAfter == {i \in CallsOf("run") : SudoAt # 0 /\ i > SudoAt}

\* A probe fails by raising an SSH error or by returning a Result that is not ok.
ProbeFailed(i) == calls[i].raised \in ssh_errors
                  \/ (calls[i].raised = "none" /\ ~calls[i].ok)

\* Some call raised something no handler of test_smoke takes.
UncaughtRaise == \E i \in DOMAIN calls : calls[i].raised \notin (ssh_errors \cup {"none"})

\* Number of entries of a sequence that lie in a set.
Count(seq, S) == Cardinality({i \in DOMAIN seq : seq[i] \in S})

\* The warnings test_smoke writes about the uptime probes.
ProbeWarningsBefore == {WarnSshBefore, WarnSsh1NotOk}
ProbeWarningsAfter == {WarnSshAfter, WarnSsh2NotOk}

\* The names of the calls made so far, in order.
CallNames == [i \in DOMAIN calls |-> calls[i].call]

\* s is an initial part of t.
IsPrefix(s, t) == Len(s) <= Len(t) /\ \A i \in DOMAIN s : s[i] = t[i]

-----------------------------------------------------------------------------
(* Claims about test_smoke *)

\* C1: SSH failures do not fail test_smoke: a finished run in which an uptime
\* probe before and/or after the reboot failed (raised an SSH error or
\* returned a Result that is not ok), both pings are ok and no other step
\* raised, has passed, and each failed probe left a warning.
C1_SshFailuresDoNotFail ==
    ( /\ pc = "done"
      /\ \E i \in ProbesBefore \cup ProbesAfter : ProbeFailed(i)
      /\ PingOk(ping1) /\ PingOk(ping2)
      /\ ~UncaughtRaise )
    => /\ Passed
       /\ \A i \in ProbesBefore : ProbeFailed(i) => Count(warnings, ProbeWarningsBefore) = 1
       /\ \A i \in ProbesAfter : ProbeFailed(i) => Count(warnings, ProbeWarningsAfter) = 1

\* node.run and node.sudo raised nothing but SSH errors.
OnlySshFaults == \A i \in CallsOf("run") \cup CallsOf("sudo") :
                    calls[i].raised \in (ssh_errors \cup {"none"})

\* The diagnostics fetch did not raise.
DiagnosticsQuiet == \A i \in CallsOf("get_boot_diagnostics") : calls[i].raised = "none"

\* C2: the verdict is decided by the two pings alone: over all outcomes of
\* the shell probes (a Result or an SSH error), of the reboot command (any
\* exit code) and of the platform restart, a finished run has passed if and
\* only if the ping before and the ping after the reboot are both ok.
C2_VerdictIsThePings ==
    (pc = "done" /\ OnlySshFaults /\ DiagnosticsQuiet)
       => (Passed <=> (PingOk(ping1) /\ PingOk(ping2)))

\* C3: escalation on a retryable fault: when node.sudo('reboot') raised an
\* SSH error, the fault does not leave test_smoke, the very next call is
\* node.platform_restart(), it is made exactly once, and when it returns the
\* next call is the post-reboot ping.
C3_EscalationOnSshFault ==
    \A i \in CallsOf("sudo") :
       calls[i].raised \in ssh_errors =>
          /\ raised \notin ssh_errors
          /\ Count(warnings, {WarnSshReboot}) = 1
          /\ IF Len(calls) = i
               THEN pc = "platform_restart" /\ raised = "none"
               ELSE /\ calls[i + 1].call = "platform_restart"
                    /\ Cardinality(CallsOf("platform_restart")) = 1
                    /\ calls[i + 1].raised = "none" =>
                          IF Len(calls) = i + 1
                            THEN pc = "ping2" /\ raised = "none"
                            ELSE calls[i + 2].call = "ping" /\ ping2.bound

\* C3 witness: the reboot command raised an SSH error, the platform restart
\* returned and the post-reboot ping was made.
C3_Witness ==
    /\ Len(calls) >= 5
    /\ calls[3].call = "sudo" /\ calls[3].raised = "SSHException"
    /\ calls[4].call = "platform_restart" /\ calls[4].raised = "none"
    /\ calls[5].call = "ping" /\ ping2.bound

\* The calls of a complete run: with the platform restart exactly when the
\* reboot command raised an SSH error.
StagesShell == <<"ping", "run", "sudo", "ping", "run", "get_boot_diagnostics">>
StagesPlatform == <<"ping", "run", "sudo", "platform_restart", "ping", "run",
                    "get_boot_diagnostics">>
Stages == IF SudoAt # 0 /\ calls[SudoAt].raised \in ssh_errors
            THEN StagesPlatform ELSE StagesShell

DiagnosticsFailed == \E i \in CallsOf("get_boot_diagnostics") : ~calls[i].ok

StrategyCalls == CallsOf("sudo") \cup CallsOf("platform_restart")
StrategyIndex(i) == IF calls[i].call = "sudo" THEN 0 ELSE 1
Returned(i) == calls[i].raised = "none"

\* C8: short-circuit: once node.sudo('reboot') returned a Result, whatever its
\* exit code, node.platform_restart() is never invoked; an exit code other
\* than -1 leaves exactly the warning "While SSH worked, 'reboot' command
\* failed"; the number of strategies invoked is the index of the first
\* returning strategy plus one.
C8_ShortCircuit ==
    /\ \A i \in CallsOf("sudo") :
          Returned(i) =>
             /\ CallsOf("platform_restart") = {}
             /\ pc # "platform_restart"
             /\ Count(warnings, {WarnSshReboot}) = 0
             /\ Count(warnings, {WarnRebootFailed}) = IF reboot.exited # -1 THEN 1 ELSE 0
    /\ \A i \in StrategyCalls :
          (Returned(i) /\ \A j \in StrategyCalls : Returned(j) => i <= j)
             => Cardinality(StrategyCalls) = StrategyIndex(i) + 1

\* C8 witness: the reboot command returned exit code 1 and the run finished.
C8_Witness ==
    /\ pc = "done"
    /\ reboot.bound /\ reboot.exited = 1
    /\ Count(warnings, {WarnRebootFailed}) = 1

\* The platform restart raised.
PlatformRaisedAt(i) == calls[i].call = "platform_restart" /\ calls[i].raised # "none"

C10_WarningsIndependentOfVerdict ==
    ( /\ pc = "done"
      /\ CallNames = Stages
      /\ ~UncaughtRaise )
    => /\ Count(warnings, ProbeWarningsBefore) =
             Cardinality({i \in ProbesBefore : ProbeFailed(i)})
       /\ Count(warnings, ProbeWarningsAfter) =
             Cardinality({i \in ProbesAfter : ProbeFailed(i)})
       /\ ( /\ PingOk(ping1) /\ ~PingOk(ping2)
            /\ \A i \in ProbesBefore \cup ProbesAfter : ProbeFailed(i) )
          => /\ raised = "AssertionError"
             /\ Count(warnings, ProbeWarningsBefore \cup ProbeWarningsAfter) = 2

\* The statements that evaluate a ping assertion (lines 63 and 66).
AssertStatements == {"assert_ping1", "assert_ping2"}

\* C11: results are checked only at the end: a ping assertion is evaluated
\* only after node.get_boot_diagnostics() was invoked and returned, at the end
\* of all the stages; so in a finished run in which no step raised an uncaught
\* exception a failed ping (before or after the reboot) prevented neither the
\* reboot attempt, nor the post-reboot checks, nor the diagnostics fetch.
C11_ResultsCheckedAtTheEnd ==
    /\ (pc \in AssertStatements \/ raised = "AssertionError") =>
          /\ CallNames = Stages
          /\ calls[Len(calls)].call = "get_boot_diagnostics"
          /\ calls[Len(calls)].raised = "none"
    /\ ( /\ pc = "done"
         /\ ~UncaughtRaise
         /\ (ping1.bound /\ ~Ok(ping1)) \/ (ping2.bound /\ ~Ok(ping2)) )
       => /\ CallsOf("sudo") # {}
          /\ ping2.bound
          /\ Cardinality(CallsOf("run")) = 2
          /\ CallsOf("get_boot_diagnostics") # {}

\* C11 witness: the ping before the reboot failed, and the run still sent the
\* reboot command, made the post-reboot checks and fetched the diagnostics
\* before it failed on the assertion.
C11_Witness ==
    /\ pc = "done"
    /\ raised = "AssertionError"
    /\ ping1.bound /\ ~Ok(ping1)
    /\ reboot.bound
    /\ ssh2.bound
    /\ CallNames = StagesShell

-----------------------------------------------------------------------------
(* Python values of a marker's arguments *)

PyStr(s) == [t |-> "str", v |-> s]
PyInt(n) == [t |-> "int", v |-> n]
PyBool(b) == [t |-> "bool", v |-> b]
PyNone == [t |-> "NoneType", v |-> 0]
PyList(items) == [t |-> "list", v |-> items]
PyTuple(items) == [t |-> "tuple", v |-> items]

\* Python's ==: bool is an int (True == 1, False == 0); values of other
\* types are equal when they are the same value of the same type.
IsNumber(x) == x.t \in {"int", "bool"}
NumberOf(x) == IF x.t = "bool" THEN (IF x.v THEN 1 ELSE 0) ELSE x.v
PyEq(x, y) == IF IsNumber(x) /\ IsNumber(y) THEN NumberOf(x) = NumberOf(y)
                                            ELSE x = y

\* dict.update(other): the keys of other are set, the rest is kept.
Update(d, other) == [k \in DOMAIN d \cup DOMAIN other |->
                        IF k \in DOMAIN other THEN other[k] ELSE d[k]]

-----------------------------------------------------------------------------
(* lisa_schema, with the rules of the schema library *)

\* Or("Functional", "Performance", "Stress", "Community", "Longhaul")
SchemaCategories == {"Functional", "Performance", "Stress", "Community", "Longhaul"}

\* A schema whose priorities start at 1.
SchemaPrioritiesFromOne == {1, 2, 3}

\* Or(0, 1, 2, 3)
SchemaPriorities == {0, 1, 2, 3}

\* The entries of lisa_schema in the order Schema tries them on a key of the
\* data: the literal keys, then Optional("features"), then Optional(object).
lisa_schema == <<
    [key |-> "platform", literal |-> TRUE,  optional |-> FALSE, default |-> FALSE, value |-> "str"],
    [key |-> "category", literal |-> TRUE,  optional |-> FALSE, default |-> FALSE, value |-> "Or(category)"],
    [key |-> "area",     literal |-> TRUE,  optional |-> FALSE, default |-> FALSE, value |-> "str"],
    [key |-> "priority", literal |-> TRUE,  optional |-> FALSE, default |-> FALSE, value |-> "Or(priority)"],
    [key |-> "features", literal |-> TRUE,  optional |-> TRUE,  default |-> TRUE,  value |-> "[str]"],
    [key |-> "object",   literal |-> FALSE, optional |-> TRUE,  default |-> FALSE, value |-> "object"] >>

\* Schema(skey).validate(key): a literal key is compared, the type object
\* takes every key.
KeyMatches(entry, k) == IF entry.literal THEN entry.key = k ELSE TRUE

\* Schema(svalue).validate(value) succeeds.
ValueValid(svalue, x) ==
    CASE svalue = "str" -> x.t = "str"
      [] svalue = "Or(category)" -> \E c \in SchemaCategories : PyEq(PyStr(c), x)
      [] svalue = "Or(priority)" -> \E n \in SchemaPriorities : PyEq(PyInt(n), x)
      [] svalue = "[str]" -> x.t = "list" /\ \A i \in DOMAIN x.v : x.v[i].t = "str"
      [] svalue = "object" -> TRUE

\* The first entry whose key takes k; its value schema decides alone.
FirstMatch(k) == CHOOSE i \in DOMAIN lisa_schema :
                    /\ KeyMatches(lisa_schema[i], k)
                    /\ \A j \in 1..(i - 1) : ~KeyMatches(lisa_schema[j], k)

\* The entries that took a key of the data.
Coverage(data) == {FirstMatch(k) : k \in DOMAIN data}

\* A default the schema's own [str] does not take (default=None).
FeaturesDefaultNone == PyNone

\* The default of Optional("features", default=list): list() is [].
FeaturesDefault == PyList(<<>>)

\* The defaults of the optional entries no key of the data used.
Defaults(data) ==
    LET unused == {i \in DOMAIN lisa_schema : lisa_schema[i].default /\ i \notin Coverage(data)}
    IN [k \in {lisa_schema[i].key : i \in unused} |-> FeaturesDefault]

\* lisa_schema.validate(data): the error raised ("ok" when none) and the
\* validated dict.  A key whose value its entry refuses raises SchemaError;
\* then a required entry no key used raises SchemaMissingKeyError; extra keys
\* are taken by Optional(object) (and ignore_extra_keys=True).
SchemaValidate(data) ==
    IF \E k \in DOMAIN data : ~ValueValid(lisa_schema[FirstMatch(k)].value, data[k])
      THEN [error |-> "SchemaError", value |-> data]
    ELSE IF \E i \in DOMAIN lisa_schema : ~lisa_schema[i].optional /\ i \notin Coverage(data)
      THEN [error |-> "SchemaMissingKeyError", value |-> data]
    ELSE [error |-> "ok", value |-> Update(data, Defaults(data))]

-----------------------------------------------------------------------------
(* validate(mark) *)

AssertionMessage == "AssertionError: LISA marker cannot have positional arguments!"

\* A validate that takes positional arguments.
ArgsTolerated(m) == FALSE

\* line 40: assert not mark.args
ArgsRejected(m) == Len(m.args) > 0

\* validate(mark): the error raised ("ok" when none) and the marker afterwards.
validate(m) ==
    IF ArgsRejected(m)
      THEN [error |-> AssertionMessage, mark |-> m]
    ELSE LET r == SchemaValidate(m.kwargs)
         IN IF r.error # "ok"
              THEN [error |-> r.error, mark |-> m]
              ELSE [error |-> "ok",
                    mark |-> [m EXCEPT !.kwargs = Update(m.kwargs, r.value)]]

\* Number of validate calls made on one marker.
MaxValidateCalls == 2

\* One call of validate on the marker.
Validate ==
    /\ vcalls < MaxValidateCalls
    /\ mark' = validate(mark).mark
    /\ verror' = validate(mark).error
    /\ vcalls' = vcalls + 1
    /\ UNCHANGED mark0
    /\ UNCHANGED smokeVars

\* The markers validate is tried on.
Absent == [t |-> "absent", v |-> 0]
PlatformOptions == {Absent, PyStr("Azure"), PyInt(1)}
CategoryOptions == {Absent, PyNone, PyStr("Bogus")} \cup {PyStr(c) : c \in SchemaCategories}
AreaOptions == {Absent, PyStr("deploy"), PyList(<<>>)}
PriorityOptions == {Absent, PyInt(0), PyInt(3), PyInt(4), PyBool(TRUE), PyStr("1")}
FeaturesOptions == {Absent, PyNone, PyStr("gpu"), PyList(<<>>), PyList(<<PyStr("gpu")>>),
                    PyList(<<PyStr("gpu"), PyInt(1)>>), PyTuple(<<PyStr("gpu")>>)}
TagsOptions == {Absent, PyInt(7), PyList(<<PyStr("x")>>)}
ArgsOptions == {<<>>, <<PyStr("Azure")>>, <<PyInt(1), PyInt(2)>>}

\* The dict of the keyword arguments that are present.
Kwargs(sel) == [k \in {k \in DOMAIN sel : sel[k] # Absent} |-> sel[k]]

Marks ==
    { [args |-> a,
       kwargs |-> Kwargs([platform |-> p, category |-> c, area |-> ar,
                          priority |-> pr, features |-> f, tags |-> tg])] :
      a \in ArgsOptions, p \in PlatformOptions, c \in CategoryOptions,
      ar \in AreaOptions, pr \in PriorityOptions, f \in FeaturesOptions,
      tg \in TagsOptions }

InitValidate ==
    /\ pc = "ping1"
    /\ ping1 = Unbound
    /\ ssh1 = Unbound
    /\ reboot = Unbound
    /\ ping2 = Unbound
    /\ ssh2 = Unbound
    /\ warnings = <<>>
    /\ calls = <<>>
    /\ raised = "none"
    /\ mark \in Marks
    /\ mark0 = mark
    /\ verror = "none"
    /\ vcalls = 0

NextValidate == Validate

SpecValidate == InitValidate /\ [][NextValidate]_vars

-----------------------------------------------------------------------------
(* config: the defaults for local and remote commands *)

\* lines 13-23: echo each command, no stdin forwarding, and the number of
\* seconds a remote command may take.
config == [run |-> [echo |-> TRUE, in_stream |-> FALSE, command_timeout |-> 1200]]

\* The remote commands sent so far; nothing in test_smoke overrides config.
RemoteCommands == CallsOf("run") \cup CallsOf("sudo")

\* C12: the default run configuration does not let a remote command take
\* longer than five minutes: every remote command is sent with
\* config['run']['command_timeout'] equal to 300 seconds.
C12_CommandTimeoutFiveMinutes ==
    RemoteCommands # {} => config.run.command_timeout = 5 * 60

-----------------------------------------------------------------------------
(* Claims about validate *)

\* C6: validate rejects every marker that has a positional argument with the
\* assertion error 'LISA marker cannot have positional arguments!', and the
\* marker's kwargs are left as they were.
C6_PositionalArgsRejected ==
    (vcalls > 0 /\ Len(mark0.args) > 0) =>
       /\ verror = AssertionMessage
       /\ mark.kwargs = mark0.kwargs
       /\ mark.args = mark0.args

\* C6 witness: a marker with a positional argument whose kwargs the schema
\* would take and complete with 'features' was handed to validate.
C6_Witness ==
    /\ vcalls > 0
    /\ Len(mark0.args) > 0
    /\ SchemaValidate(mark0.kwargs).error = "ok"
    /\ "features" \notin DOMAIN mark0.kwargs

\* The kwargs the claim says validate accepts.
Has(kw, k) == k \in DOMAIN kw
IsListOfStr(x) == x.t = "list" /\ \A i \in DOMAIN x.v : x.v[i].t = "str"
Acceptable(kw) ==
    /\ Has(kw, "platform") /\ kw["platform"].t = "str"
    /\ Has(kw, "area") /\ kw["area"].t = "str"
    /\ Has(kw, "category") /\ kw["category"].t = "str"
    /\ kw["category"].v \in {"Functional", "Performance", "Stress", "Community", "Longhaul"}
    /\ Has(kw, "priority") /\ IsNumber(kw["priority"])
    /\ NumberOf(kw["priority"]) \in {0, 1, 2, 3}
    /\ Has(kw, "features") => IsListOfStr(kw["features"])

\* C7: the first validate of a marker without positional arguments succeeds
\* if and only if its kwargs have 'platform' and 'area' (strings), 'category'
\* among the five categories, 'priority' in {0,1,2,3} (as Python compares:
\* True is 1) and 'features', when present, a list of strings.  On success
\* kwargs has 'features' ([] when it was absent), no other key is added and
\* every key that was present keeps its value; on failure the marker is unchanged.
C7_ValidateAcceptance ==
    (vcalls = 1 /\ Len(mark0.args) = 0) =>
       /\ verror = "ok" <=> Acceptable(mark0.kwargs)
       /\ verror = "ok" =>
             /\ DOMAIN mark.kwargs = DOMAIN mark0.kwargs \cup {"features"}
             /\ ~Has(mark0.kwargs, "features") => mark.kwargs["features"] = PyList(<<>>)
             /\ \A k \in DOMAIN mark0.kwargs : mark.kwargs[k] = mark0.kwargs[k]
             /\ mark.args = mark0.args
       /\ verror # "ok" =>
             /\ verror \in {"SchemaError", "SchemaMissingKeyError"}
             /\ mark = mark0

\* C7 witness: a marker with priority 0, a key the schema does not name and no
\* 'features' was accepted.
C7_Witness ==
    /\ vcalls = 1
    /\ verror = "ok"
    /\ Len(mark0.args) = 0
    /\ Has(mark0.kwargs, "tags")
    /\ ~Has(mark0.kwargs, "features")
    /\ mark0.kwargs["priority"] = PyInt(0)

\* C13: validate is idempotent: after a validate that accepted the marker,
\* the next validate of the same marker also succeeds and leaves the marker,
\* its kwargs included, exactly as the accepted run left it.
C13_ValidateIdempotent ==
    [][(vcalls >= 1 /\ verror = "ok") => (verror' = "ok" /\ mark' = mark)]_vars

\* C13 witness: a marker without 'features' and with a key the schema does
\* not name was accepted twice; the first run added the default.
C13_Witness ==
    /\ vcalls = 2
    /\ verror = "ok"
    /\ ~Has(mark0.kwargs, "features")
    /\ Has(mark0.kwargs, "tags")
    /\ mark.kwargs["features"] = PyList(<<>>)
====
